---------------------------- MODULE Spec2Model ----------------------------
(***************************************************************************)
(* Model of calculate_accuracy (jupyter_notebooks/05_accuracy_standalone)  *)
(* of the 2004_titanic notebooks.                                          *)
(*                                                                         *)
(* The function works on NumPy arrays: the masks are boolean arrays, the   *)
(* counts np.sum(mask) are int64 and every metric is an IEEE-754 binary64  *)
(* value (np.float64).  The arithmetic is modelled as binary64 does it:    *)
(* each operation returns the exact result rounded to 53 significant bits, *)
(* round-half-to-even; x/0 is inf, 0/0 is nan (NumPy's default error state *)
(* warns and carries on).  Significands do not fit TLC's 32-bit integers,  *)
(* so they are kept as little-endian sequences of 14-bit limbs.            *)
(***************************************************************************)
EXTENDS Integers, Sequences, FiniteSets, TLC

\* ------------------------------------------------------------------------
\* Natural numbers of any size: little-endian limbs, no leading zero limb
\* ------------------------------------------------------------------------

\* bits per limb, and the limb base 2^LimbBits
LimbBits == 14
Base == 2 ^ LimbBits

\* significand width of binary64
MantBits == 53

RECURSIVE Pow2(_)
Pow2(n) == IF n = 0 THEN 1 ELSE 2 * Pow2(n - 1)

RECURSIVE BigNorm(_)
BigNorm(a) ==
    IF Len(a) = 0 THEN a
    ELSE IF a[Len(a)] = 0 THEN BigNorm(SubSeq(a, 1, Len(a) - 1))
    ELSE a

RECURSIVE BigFromInt(_)
BigFromInt(n) ==
    IF n = 0 THEN << >> ELSE << n % Base >> \o BigFromInt(n \div Base)

BigLimb(a, i) == IF i <= Len(a) THEN a[i] ELSE 0

BigMaxLen(a, b) == IF Len(a) >= Len(b) THEN Len(a) ELSE Len(b)

\* -1, 0, 1 as a < b, a = b, a > b; limbs compared from the top
RECURSIVE BigCmpFrom(_, _, _)
BigCmpFrom(a, b, i) ==
    IF i = 0 THEN 0
    ELSE IF BigLimb(a, i) < BigLimb(b, i) THEN -1
    ELSE IF BigLimb(a, i) > BigLimb(b, i) THEN 1
    ELSE BigCmpFrom(a, b, i - 1)

BigCmp(a, b) == BigCmpFrom(a, b, BigMaxLen(a, b))

RECURSIVE BigAddFrom(_, _, _, _)
BigAddFrom(a, b, i, carry) ==
    IF i > BigMaxLen(a, b)
    THEN (IF carry = 0 THEN << >> ELSE << carry >>)
    ELSE LET s == BigLimb(a, i) + BigLimb(b, i) + carry
         IN  << s % Base >> \o BigAddFrom(a, b, i + 1, s \div Base)

BigAdd(a, b) == BigAddFrom(a, b, 1, 0)

\* a - b for a >= b
RECURSIVE BigSubFrom(_, _, _, _)
BigSubFrom(a, b, i, borrow) ==
    IF i > Len(a) THEN << >>
    ELSE LET d == BigLimb(a, i) - BigLimb(b, i) - borrow
         IN  IF d < 0
             THEN << d + Base >> \o BigSubFrom(a, b, i + 1, 1)
             ELSE << d >> \o BigSubFrom(a, b, i + 1, 0)

BigSub(a, b) == BigNorm(BigSubFrom(a, b, 1, 0))

\* a * k for 0 <= k <= Base
RECURSIVE BigMulSmallFrom(_, _, _, _)
BigMulSmallFrom(a, k, i, carry) ==
    IF i > Len(a)
    THEN (IF carry = 0 THEN << >> ELSE << carry >>)
    ELSE LET p == a[i] * k + carry
         IN  << p % Base >> \o BigMulSmallFrom(a, k, i + 1, p \div Base)

BigMulSmall(a, k) == BigNorm(BigMulSmallFrom(a, k, 1, 0))

BigZeros(n) == [i \in 1..n |-> 0]

\* a * Base^n
BigShiftLimbs(a, n) == IF Len(a) = 0 THEN a ELSE BigZeros(n) \o a

RECURSIVE BigMulFrom(_, _, _)
BigMulFrom(a, b, j) ==
    IF j > Len(b) THEN << >>
    ELSE BigAdd(BigShiftLimbs(BigMulSmall(a, b[j]), j - 1),
                BigMulFrom(a, b, j + 1))

BigMul(a, b) == BigMulFrom(a, b, 1)

\* floor(a / k) for 1 <= k <= Base, limbs taken from the top
RECURSIVE BigDivSmallFrom(_, _, _, _)
BigDivSmallFrom(a, k, i, rem) ==
    IF i = 0 THEN << >>
    ELSE LET cur == rem * Base + a[i]
         IN  BigDivSmallFrom(a, k, i - 1, cur % k) \o << cur \div k >>

BigDivSmall(a, k) == BigNorm(BigDivSmallFrom(a, k, Len(a), 0))

\* a * 2^s and floor(a / 2^s)
BigShl(a, s) ==
    BigShiftLimbs(BigMulSmall(a, Pow2(s % LimbBits)), s \div LimbBits)

BigShr(a, s) ==
    IF s \div LimbBits >= Len(a) THEN << >>
    ELSE BigDivSmall(SubSeq(a, s \div LimbBits + 1, Len(a)),
                     Pow2(s % LimbBits))

RECURSIVE IntBitLen(_)
IntBitLen(n) == IF n = 0 THEN 0 ELSE 1 + IntBitLen(n \div 2)

BigBitLen(a) ==
    IF Len(a) = 0 THEN 0
    ELSE (Len(a) - 1) * LimbBits + IntBitLen(a[Len(a)])

BigOdd(a) == Len(a) > 0 /\ a[1] % 2 = 1

\* ------------------------------------------------------------------------
\* binary64 values: nan, +-inf, or finite (-1)^neg * m * 2^e with the
\* significand m of exactly MantBits bits (m empty for zero)
\* ------------------------------------------------------------------------

NaN == [k |-> "nan", neg |-> FALSE, m |-> << >>, e |-> 0]

Inf(neg) == [k |-> "inf", neg |-> neg, m |-> << >>, e |-> 0]

Zero == [k |-> "fin", neg |-> FALSE, m |-> << >>, e |-> 0]

IsNaN(x) == x.k = "nan"

IsFinite(x) == x.k = "fin"

IsZero(x) == x.k = "fin" /\ Len(x.m) = 0

\* The binary64 nearest to (-1)^neg * (m + t) * 2^e, ties to even, where
\* 0 < t < 1 when sticky and t = 0 otherwise (sticky only with more than
\* MantBits + 1 bits in m).
RoundToDouble(neg, m, e, sticky) ==
    LET L == BigBitLen(m)
    IN  IF L = 0 THEN Zero
        ELSE IF L <= MantBits
        THEN [k |-> "fin", neg |-> neg,
              m |-> BigShl(m, MantBits - L), e |-> e - (MantBits - L)]
        ELSE LET s    == L - MantBits
                 q    == BigShr(m, s)
                 rem  == BigSub(m, BigShl(q, s))
                 c    == BigCmp(rem, BigShl(<< 1 >>, s - 1))
                 up   == c = 1 \/ (c = 0 /\ (sticky \/ BigOdd(q)))
                 q2   == IF up THEN BigAdd(q, << 1 >>) ELSE q
             IN  IF BigBitLen(q2) > MantBits
                 THEN [k |-> "fin", neg |-> neg,
                       m |-> BigShr(q2, 1), e |-> e + s + 1]
                 ELSE [k |-> "fin", neg |-> neg, m |-> q2, e |-> e + s]

\* int64 -> float64 (exact below 2^53)
FromInt(n) ==
    IF n < 0 THEN RoundToDouble(TRUE, BigFromInt(0 - n), 0, FALSE)
    ELSE RoundToDouble(FALSE, BigFromInt(n), 0, FALSE)

One == FromInt(1)

\* -1, 0, 1 comparing the magnitudes of two finite values
FCmpMag(a, b) ==
    IF IsZero(a) THEN (IF IsZero(b) THEN 0 ELSE -1)
    ELSE IF IsZero(b) THEN 1
    ELSE IF a.e < b.e THEN -1
    ELSE IF a.e > b.e THEN 1
    ELSE BigCmp(a.m, b.m)

\* -1, 0, 1 comparing two values that are not nan
FCmp(a, b) ==
    LET sa == IF IsZero(a) THEN 0 ELSE IF a.neg THEN -1 ELSE 1
        sb == IF IsZero(b) THEN 0 ELSE IF b.neg THEN -1 ELSE 1
        ma == IF a.k = "inf" THEN 1 ELSE 0
        mb == IF b.k = "inf" THEN 1 ELSE 0
    IN  IF sa # sb THEN (IF sa < sb THEN -1 ELSE 1)
        ELSE IF sa = 0 THEN 0
        ELSE IF ma # mb THEN (IF ma < mb THEN 0 - sa ELSE sa)
        ELSE IF ma = 1 THEN 0
        ELSE sa * FCmpMag(a, b)

\* Python's ==, <=, < on floats: False whenever an operand is nan
FEq(a, b) == ~IsNaN(a) /\ ~IsNaN(b) /\ FCmp(a, b) = 0

FLeq(a, b) == ~IsNaN(a) /\ ~IsNaN(b) /\ FCmp(a, b) <= 0

FLess(a, b) == ~IsNaN(a) /\ ~IsNaN(b) /\ FCmp(a, b) < 0

FMul(a, b) ==
    IF IsNaN(a) \/ IsNaN(b) THEN NaN
    ELSE IF a.k = "inf" \/ b.k = "inf"
    THEN (IF IsZero(a) \/ IsZero(b) THEN NaN ELSE Inf(a.neg # b.neg))
    ELSE IF IsZero(a) \/ IsZero(b) THEN Zero
    ELSE RoundToDouble(a.neg # b.neg, BigMul(a.m, b.m), a.e + b.e, FALSE)

\* sum of two finite values given as sign, significand, exponent
AddFinite(a, b) ==
    LET emin == IF IsZero(a) THEN b.e ELSE IF IsZero(b) THEN a.e
                ELSE IF a.e <= b.e THEN a.e ELSE b.e
        ma   == IF IsZero(a) THEN << >> ELSE BigShl(a.m, a.e - emin)
        mb   == IF IsZero(b) THEN << >> ELSE BigShl(b.m, b.e - emin)
        c    == BigCmp(ma, mb)
    IN  IF a.neg = b.neg THEN RoundToDouble(a.neg, BigAdd(ma, mb), emin, FALSE)
        ELSE IF c = 0 THEN Zero
        ELSE IF c > 0 THEN RoundToDouble(a.neg, BigSub(ma, mb), emin, FALSE)
        ELSE RoundToDouble(b.neg, BigSub(mb, ma), emin, FALSE)

FAdd(a, b) ==
    IF IsNaN(a) \/ IsNaN(b) THEN NaN
    ELSE IF a.k = "inf"
    THEN (IF b.k = "inf" /\ a.neg # b.neg THEN NaN ELSE a)
    ELSE IF b.k = "inf" THEN b
    ELSE AddFinite(a, b)

FNeg(a) == IF IsNaN(a) \/ IsZero(a) THEN a ELSE [a EXCEPT !.neg = ~a.neg]

FSub(a, b) == FAdd(a, FNeg(b))

\* Knuth's long division, one limb of the quotient at a time.  d has its top
\* limb >= Base/2 and r < d; u = r * Base.  The estimate from the top limbs
\* is at most 2 above the quotient limb.
DivDigit(u, d) ==
    LET n    == Len(d)
        top  == BigLimb(u, n + 1) * Base + BigLimb(u, n)
        est  == IF top \div d[n] >= Base THEN Base - 1 ELSE top \div d[n]
        fits(k) == BigCmp(BigMulSmall(d, k), u) <= 0
    IN  IF fits(est) THEN est
        ELSE IF fits(est - 1) THEN est - 1
        ELSE est - 2

\* n more limbs of the quotient of r * Base^n by d: << quotient, rest >>,
\* the quotient's limbs from the top
RECURSIVE DivLimbs(_, _, _, _)
DivLimbs(r, d, q, n) ==
    IF n = 0 THEN << BigNorm(q), r >>
    ELSE LET u   == BigShiftLimbs(r, 1)
             dig == DivDigit(u, d)
         IN  DivLimbs(BigSub(u, BigMulSmall(d, dig)), d, << dig >> \o q, n - 1)

\* quotient limbs taken before rounding a division, and the shift that
\* brings a MantBits-bit divisor to a full top limb
QuotLimbs == (MantBits + LimbBits - 1) \div LimbBits
NormShift == QuotLimbs * LimbBits - MantBits

\* quotient of two finite non-zero values
DivFinite(a, b) ==
    LET d     == BigShl(b.m, NormShift)
        n     == BigShl(a.m, NormShift)
        first == BigCmp(n, d) >= 0
        r0    == IF first THEN BigSub(n, d) ELSE n
        q0    == IF first THEN << 1 >> ELSE << >>
        qr    == DivLimbs(r0, d, q0, QuotLimbs)
    IN  RoundToDouble(a.neg # b.neg, qr[1],
                      a.e - b.e - QuotLimbs * LimbBits, Len(qr[2]) > 0)

\* true division of float64: x/0 is inf, 0/0 is nan (RuntimeWarning only)
FDiv(a, b) ==
    IF IsNaN(a) \/ IsNaN(b) THEN NaN
    ELSE IF a.k = "inf"
    THEN (IF b.k = "inf" THEN NaN ELSE Inf(a.neg # b.neg))
    ELSE IF b.k = "inf" THEN Zero
    ELSE IF IsZero(b) THEN (IF IsZero(a) THEN NaN ELSE Inf(a.neg # b.neg))
    ELSE IF IsZero(a) THEN Zero
    ELSE DivFinite(a, b)

\* ------------------------------------------------------------------------
\* NumPy operations used by calculate_accuracy
\* ------------------------------------------------------------------------

\* array == scalar: the boolean mask, element by element
EqScalar(arr, v) == [i \in 1..Len(arr) |-> arr[i] = v]

\* boolean mask == 1 and boolean mask == 0 (True == 1, False == 0)
MaskEq1(mask) == [i \in 1..Len(mask) |-> mask[i] = TRUE]

MaskEq0(mask) == [i \in 1..Len(mask) |-> mask[i] = FALSE]

\* Shapes (n,) and (m,) broadcast when n = m or one of them is 1.
Broadcastable(a, b) == Len(a) = Len(b) \/ Len(a) = 1 \/ Len(b) = 1

BroadcastLen(a, b) == IF Len(a) = 1 THEN Len(b) ELSE Len(a)

BroadcastAt(a, i) == IF Len(a) = 1 THEN a[1] ELSE a[i]

\* a & b of two masks that broadcast
MaskAnd(a, b) ==
    [i \in 1..BroadcastLen(a, b) |-> BroadcastAt(a, i) /\ BroadcastAt(b, i)]

\* a == b of two arrays that broadcast
ArrayEq(a, b) ==
    [i \in 1..BroadcastLen(a, b) |-> BroadcastAt(a, i) = BroadcastAt(b, i)]

\* np.sum of a mask: the number of True elements, an int64
RECURSIVE np_sum(_)
np_sum(mask) ==
    IF Len(mask) = 0 THEN 0
    ELSE (IF mask[Len(mask)] THEN 1 ELSE 0)
         + np_sum(SubSeq(mask, 1, Len(mask) - 1))

\* int64 / int64: both converted to float64, then divided
IntTrueDivide(a, b) == FDiv(FromInt(a), FromInt(b))

\* np.mean of a mask: the float64 sum divided by the element count
np_mean(mask) == FDiv(FromInt(np_sum(mask)), FromInt(Len(mask)))

\* ------------------------------------------------------------------------
\* calculate_accuracy, statement by statement
\* ------------------------------------------------------------------------

observed_positives(obs) == EqScalar(obs, 1)

\* a plausible slip: the negative mask compares with 1
observed_negatives_as_positives(obs) == EqScalar(obs, 1)

observed_negatives(obs) == EqScalar(obs, 0)

predicted_positives(pred) == EqScalar(pred, 1)

predicted_negatives(pred) == EqScalar(pred, 0)

true_positives(pp, op) == MaskAnd(MaskEq1(pp), MaskEq1(op))

\* a plausible slip: every predicted positive is counted as a false one
false_positives_of_any_observed(pp, op) == MaskAnd(MaskEq1(pp), MaskEq1(pp))

false_positives(pp, op) == MaskAnd(MaskEq1(pp), MaskEq0(op))

\* a plausible slip: the observed-negative mask taken for the true negatives
true_negatives_of_any_predicted(pn, on) == MaskAnd(MaskEq1(on), MaskEq1(on))

true_negatives(pn, on) == MaskAnd(MaskEq1(pn), MaskEq1(on))

\* a plausible slip: the negation of observed_negatives left out
false_negatives_without_negation(pn, on) == MaskAnd(MaskEq1(pn), MaskEq1(on))

false_negatives(pn, on) == MaskAnd(MaskEq1(pn), MaskEq0(on))

\* a plausible slip: only the positive agreements are counted
accuracy_positives_only(pred, obs) ==
    np_mean(MaskAnd(EqScalar(pred, 1), EqScalar(obs, 1)))

accuracy(pred, obs) == np_mean(ArrayEq(pred, obs))

\* a plausible slip: the denominator leaves out the true positives
precision_over_false_positives(tp, fp) ==
    IntTrueDivide(np_sum(tp), np_sum(fp))

precision(tp, fp) == IntTrueDivide(np_sum(tp), np_sum(tp) + np_sum(fp))

\* a variant dividing by all cases instead of the observed positives
recall_over_all(tp, op) == IntTrueDivide(np_sum(tp), Len(op))

recall(tp, op) == IntTrueDivide(np_sum(tp), np_sum(op))

\* a plausible slip: the complement in place of the alias
sensitivity_complement(rec) == FSub(One, rec)

sensitivity(rec) == rec

\* a plausible slip: the factor 2 is missing
f1_without_factor(prec, rec) == FDiv(FMul(prec, rec), FAdd(prec, rec))

\* a plausible slip: the arithmetic mean in place of the harmonic one
f1_arithmetic_mean(prec, rec) == FDiv(FAdd(prec, rec), FromInt(2))

f1(prec, rec) == FMul(FromInt(2), FDiv(FMul(prec, rec), FAdd(prec, rec)))

\* a plausible slip: the true negatives over all cases
specificity_over_all(tn, on) == IntTrueDivide(np_sum(tn), Len(on))

specificity(tn, on) == IntTrueDivide(np_sum(tn), np_sum(on))

positive_likelihood(sens, spec) == FDiv(sens, FSub(One, spec))

\* a variant with the quotient of line 116 upside down
negative_likelihood_inverted(sens, spec) == FDiv(spec, FSub(One, sens))

negative_likelihood(sens, spec) == FDiv(FSub(One, sens), spec)

\* a plausible slip: the subtraction from 1 is missing
false_positive_rate_no_complement(spec) == spec

false_positive_rate(spec) == FSub(One, spec)

false_negative_rate(sens) == FSub(One, sens)

true_positive_rate(sens) == sens

\* a plausible slip: the complement in place of the alias
true_negative_rate_complement(spec) == FSub(One, spec)

true_negative_rate(spec) == spec

positive_predictive_value(tp, op) == IntTrueDivide(np_sum(tp), np_sum(op))

negative_predictive_value(tn, on) == IntTrueDivide(np_sum(tn), np_sum(on))

\* the keys of the results dictionary
Keys ==
    { "observed_positive_rate", "observed_negative_rate",
      "predicted_positive_rate", "predicted_negative_rate",
      "accuracy", "precision", "recall", "f1", "sensitivity",
      "specificity", "positive_likelihood", "negative_likelihood",
      "false_positive_rate", "false_negative_rate", "true_positive_rate",
      "true_negative_rate", "positive_predictive_value",
      "negative_predictive_value" }

\* a plausible slip: the last assignment to results is missing
BuildResultsWithoutLast(opr, onr, ppr, pnr, acc, prec, rec, f, sens, spec, pl, nl, fpr, fnr, tpr, tnr, ppv, npv) ==
    [observed_positive_rate    |-> opr,
     observed_negative_rate    |-> onr,
     predicted_positive_rate   |-> ppr,
     predicted_negative_rate   |-> pnr,
     accuracy                  |-> acc,
     precision                 |-> prec,
     recall                    |-> rec,
     f1                        |-> f,
     sensitivity               |-> sens,
     specificity               |-> spec,
     positive_likelihood       |-> pl,
     negative_likelihood       |-> nl,
     false_positive_rate       |-> fpr,
     false_negative_rate       |-> fnr,
     true_positive_rate        |-> tpr,
     true_negative_rate        |-> tnr,
     positive_predictive_value |-> ppv]

\* results = dict(); results[...] = ...; the dictionary that is returned
BuildResults(opr, onr, ppr, pnr, acc, prec, rec, f, sens, spec, pl, nl, fpr, fnr, tpr, tnr, ppv, npv) ==
    [observed_positive_rate    |-> opr,
     observed_negative_rate    |-> onr,
     predicted_positive_rate   |-> ppr,
     predicted_negative_rate   |-> pnr,
     accuracy                  |-> acc,
     precision                 |-> prec,
     recall                    |-> rec,
     f1                        |-> f,
     sensitivity               |-> sens,
     specificity               |-> spec,
     positive_likelihood       |-> pl,
     negative_likelihood       |-> nl,
     false_positive_rate       |-> fpr,
     false_negative_rate       |-> fnr,
     true_positive_rate        |-> tpr,
     true_negative_rate        |-> tnr,
     positive_predictive_value |-> ppv,
     negative_predictive_value |-> npv]

\* The masks of line 93 on need observed and predicted to broadcast; when
\* they do not, NumPy raises ValueError at the first & and nothing is
\* returned.
Raises(obs, pred) == ~Broadcastable(obs, pred)

\* the value calculate_accuracy(obs, pred) returns
calculate_accuracy(obs, pred) ==
    LET op   == observed_positives(obs)
        on   == observed_negatives(obs)
        pp   == predicted_positives(pred)
        pn   == predicted_negatives(pred)
        tp   == true_positives(pp, op)
        fp   == false_positives(pp, op)
        tn   == true_negatives(pn, on)
        fn   == false_negatives(pn, on)
        acc  == accuracy(pred, obs)
        prec == precision(tp, fp)
        rec  == recall(tp, op)
        sens == sensitivity(rec)
        f    == f1(prec, rec)
        spec == specificity(tn, on)
        pl   == positive_likelihood(sens, spec)
        nl   == negative_likelihood(sens, spec)
        fpr  == false_positive_rate(spec)
        fnr  == false_negative_rate(sens)
        tpr  == true_positive_rate(sens)
        tnr  == true_negative_rate(spec)
        ppv  == positive_predictive_value(tp, op)
        npv  == negative_predictive_value(tn, on)
    IN  BuildResults(np_mean(op), np_mean(on), np_mean(pp), np_mean(pn),
                     acc, prec, rec, f, sens, spec, pl, nl, fpr, fnr, tpr,
                     tnr, ppv, npv)

\* ------------------------------------------------------------------------
\* The caller: two label sequences, one call
\* ------------------------------------------------------------------------

\* longest pair of 0/1 sequences of equal length, all of which are tried
MaxLen == 5
\* longest pair of 0/1 sequences that is tried with its cases grouped: the
\* true positives first, then the false positives, the false negatives and
\* the true negatives
MaxGroupedLen == 8
\* largest label and longest sequence of the arbitrary (possibly invalid,
\* possibly unequal) inputs that are tried
MaxLabel == 2
MaxAnyLen == 2

SeqsOver(S, n) == UNION { [1..k -> S] : k \in 0..n }

Repeat(v, n) == [i \in 1..n |-> v]

\* equal length >= 1, every element 0 or 1
ValidInputs == UNION { [1..n -> {0, 1}] \X [1..n -> {0, 1}] : n \in 1..MaxLen }

GroupedInputs ==
    { << Repeat(1, c[1]) \o Repeat(0, c[2]) \o Repeat(1, c[3]) \o Repeat(0, c[4]),
         Repeat(1, c[1]) \o Repeat(1, c[2]) \o Repeat(0, c[3]) \o Repeat(0, c[4]) >> :
      c \in { d \in (0..MaxGroupedLen) \X (0..MaxGroupedLen)
                    \X (0..MaxGroupedLen) \X (0..MaxGroupedLen) :
              d[1] + d[2] + d[3] + d[4] \in 1..MaxGroupedLen } }

AnyInputs == SeqsOver(0..MaxLabel, MaxAnyLen) \X SeqsOver(0..MaxLabel, MaxAnyLen)

\* the lists of the demonstration cell
DemoObserved == << 0, 0, 1, 0, 1, 0, 1, 0, 1, 0 >>
DemoPredicted == << 0, 0, 1, 0, 1, 0, 1, 0, 0, 1 >>

Inputs ==
    ValidInputs \cup GroupedInputs \cup AnyInputs
        \cup { << DemoObserved, DemoPredicted >> }

VARIABLES
    observed,   \* the caller's observed class values
    predicted,  \* the caller's predicted class values
    pc,         \* "ready" before the call, then "returned" or "raised"
    results     \* the dictionary returned; << >> while there is none

vars == << observed, predicted, pc, results >>

\* The regularisation notebook's names, which calculate_accuracy and its
\* demonstration cell never touch
VARIABLES
    nb_cell,      \* the notebook cell to run next (its execution count)
    data,         \* the DataFrame data, a sequence of rows
    X,            \* the feature array X, a sequence of feature rows
    y,            \* the label array y
    reg_i,        \* position in reg_values of the sweep's current reg
    fold,         \* how many k-fold splits the current reg has been through
    train_index,  \* the current split's training positions
    test_index,   \* the current split's test positions
    training_acc_results,  \* mean training accuracy of each reg done
    test_acc_results,      \* mean test accuracy of each reg done
    training_k_results,    \* training accuracy of each split of this reg
    test_k_results         \* test accuracy of each split of this reg

\* the sweep cell's four lists
sweep_results ==
    << training_acc_results, test_acc_results,
       training_k_results, test_k_results >>

nbvars ==
    << nb_cell, data, X, y, reg_i, fold, train_index, test_index,
       sweep_results >>

\* nothing of the regularisation notebook has run
NotebookUnopened ==
    /\ nb_cell = 0
    /\ data = << >> /\ X = << >> /\ y = << >>
    /\ reg_i = 0 /\ fold = 0
    /\ train_index = << >> /\ test_index = << >>
    /\ training_acc_results = << >> /\ test_acc_results = << >>
    /\ training_k_results = << >> /\ test_k_results = << >>

Init ==
    /\ \E input \in Inputs :
           observed = input[1] /\ predicted = input[2]
    /\ pc = "ready"
    /\ results = << >>
    /\ NotebookUnopened

\* a variant that uses up the caller's lists while it reads them
CallReturnsEmptyingLists ==
    /\ pc = "ready"
    /\ ~Raises(observed, predicted)
    /\ results' = calculate_accuracy(observed, predicted)
    /\ pc' = "returned"
    /\ observed' = << >>
    /\ predicted' = << >>
    /\ UNCHANGED nbvars

\* accuracy = calculate_accuracy(observed, predicted) returns
CallReturns ==
    /\ pc = "ready"
    /\ ~Raises(observed, predicted)
    /\ results' = calculate_accuracy(observed, predicted)
    /\ pc' = "returned"
    /\ UNCHANGED << observed, predicted >>
    /\ UNCHANGED nbvars

\* the call raises ValueError (operands could not be broadcast together)
CallRaises ==
    /\ pc = "ready"
    /\ Raises(observed, predicted)
    /\ pc' = "raised"
    /\ UNCHANGED << observed, predicted, results >>
    /\ UNCHANGED nbvars

Next == CallReturns \/ CallRaises

Spec == Init /\ [][Next]_vars


\* ------------------------------------------------------------------------
\* What the claims speak of
\* ------------------------------------------------------------------------

Returned == pc = "returned"

IsLabelSeq(s) == \A i \in 1..Len(s) : s[i] \in {0, 1}

\* equal length N >= 1, every element 0 or 1
Valid ==
    /\ Len(observed) = Len(predicted)
    /\ Len(observed) >= 1
    /\ IsLabelSeq(observed)
    /\ IsLabelSeq(predicted)

\* the counts np.sum(...) of the function's own masks for the caller's lists
TP == np_sum(true_positives(predicted_positives(predicted),
                            observed_positives(observed)))

FP == np_sum(false_positives(predicted_positives(predicted),
                             observed_positives(observed)))

TN == np_sum(true_negatives(predicted_negatives(predicted),
                            observed_negatives(observed)))

FN == np_sum(false_negatives(predicted_negatives(predicted),
                             observed_negatives(observed)))

\* the conventional counts, case by case: the cases observed as o and
\* predicted as p, the cases observed as o, the cases predicted as p
Cases(o, p) ==
    Cardinality({ i \in 1..Len(observed) : observed[i] = o /\ predicted[i] = p })

ObservedAs(o) == Cardinality({ i \in 1..Len(observed) : observed[i] = o })

PredictedAs(p) == Cardinality({ i \in 1..Len(predicted) : predicted[i] = p })

InUnitInterval(x) == FLeq(Zero, x) /\ FLeq(x, One)

\* C1: whenever calculate_accuracy returns for equal-length, non-empty 0/1
\* sequences, the returned mapping has exactly the 18 named keys.
C1_ExactlyEighteenKeys ==
    (Returned /\ Valid) =>
        (DOMAIN results = Keys /\ Cardinality(DOMAIN results) = 18)

C1_Witness ==
    /\ Returned /\ Valid
    /\ Len(observed) = 3
    /\ DOMAIN results = Keys

\* C2: for valid inputs the returned accuracy lies in [0,1] and is exactly
\* the float64 quotient (TP+TN)/N of the function's own mask counts.
C2_AccuracyIsTPplusTNoverN ==
    (Returned /\ Valid) =>
        /\ InUnitInterval(results.accuracy)
        /\ results.accuracy = IntTrueDivide(TP + TN, Len(observed))

C2_Witness ==
    /\ Returned /\ Valid
    /\ TP >= 1 /\ TN >= 1 /\ FP + FN >= 1
    /\ FLess(Zero, results.accuracy) /\ FLess(results.accuracy, One)

\* C3: for valid inputs with a predicted positive, TP + FP is the number of
\* predicted positives and precision is the float64 quotient of the
\* observed-positive cases among them by their number.
C3_PrecisionIsShareOfPredictedPositives ==
    (Returned /\ Valid /\ PredictedAs(1) >= 1) =>
        /\ TP + FP = PredictedAs(1)
        /\ results.precision = IntTrueDivide(TP, TP + FP)
        /\ results.precision = IntTrueDivide(Cases(1, 1), PredictedAs(1))

C3_Witness ==
    /\ Returned /\ Valid
    /\ TP >= 1 /\ FP >= 1 /\ FN >= 2
    /\ results.precision = IntTrueDivide(TP, PredictedAs(1))

\* C4: where defined, positive_predictive_value is TP over the number of
\* predicted positives (the precision) and negative_predictive_value is TN
\* over the number of predicted negatives.
C4_PredictiveValuesOverPredicted ==
    (Returned /\ Valid /\ PredictedAs(1) >= 1 /\ PredictedAs(0) >= 1
              /\ ObservedAs(1) >= 1 /\ ObservedAs(0) >= 1) =>
        /\ results.positive_predictive_value
               = IntTrueDivide(Cases(1, 1), PredictedAs(1))
        /\ results.positive_predictive_value = results.precision
        /\ results.negative_predictive_value
               = IntTrueDivide(Cases(0, 0), PredictedAs(0))

\* C5: whenever calculate_accuracy returns, recall, sensitivity and
\* true_positive_rate hold the identical value.
C5_RecallSensitivityTPRIdentical ==
    Returned =>
        /\ results.recall = results.sensitivity
        /\ results.sensitivity = results.true_positive_rate

C5_Witness ==
    /\ Returned /\ Valid
    /\ FLess(Zero, results.recall) /\ FLess(results.recall, One)
    /\ results.recall = results.true_positive_rate
    /\ results.recall # results.specificity

\* C6: whenever calculate_accuracy returns, specificity and
\* true_negative_rate hold the identical value.
C6_SpecificityTNRIdentical ==
    Returned => results.specificity = results.true_negative_rate

C6_Witness ==
    /\ Returned /\ Valid
    /\ FLess(Zero, results.specificity) /\ FLess(results.specificity, One)
    /\ results.specificity = results.true_negative_rate
    /\ results.specificity # results.sensitivity

\* C7: for valid inputs with both classes observed, false_positive_rate +
\* specificity == 1 and false_negative_rate + sensitivity == 1 (float64
\* addition, Python ==).
C7_ComplementaryRatesSumToOne ==
    (Returned /\ Valid /\ ObservedAs(1) >= 1 /\ ObservedAs(0) >= 1) =>
        /\ FEq(FAdd(results.false_positive_rate, results.specificity), One)
        /\ FEq(FAdd(results.false_negative_rate, results.sensitivity), One)

\* specificity 2/3 and sensitivity 1/3: neither complement is exact in binary
C7_Witness ==
    /\ Returned /\ Valid
    /\ ObservedAs(1) = 3 /\ ObservedAs(0) = 3
    /\ TN = 2 /\ TP = 1
    /\ FEq(FAdd(results.false_positive_rate, results.specificity), One)
    /\ ~IsZero(results.false_negative_rate)

FMin(a, b) == IF FLess(b, a) THEN b ELSE a

FMax(a, b) == IF FLess(a, b) THEN b ELSE a

BothPositive(a, b) == FLess(Zero, a) /\ FLess(Zero, b)

\* C8 as stated: for valid inputs with precision and recall defined and
\* strictly positive, min(precision, recall) <= f1 <= max(precision, recall).
C8_F1BetweenPrecisionAndRecall ==
    (Returned /\ Valid /\ BothPositive(results.precision, results.recall)) =>
        /\ FLeq(FMin(results.precision, results.recall), results.f1)
        /\ FLeq(results.f1, FMax(results.precision, results.recall))

\* m1 * 2^e1 <= m2 * 2^e2, exactly
ExactLeq(m1, e1, m2, e2) ==
    LET emin == IF e1 <= e2 THEN e1 ELSE e2
    IN  BigCmp(BigShl(m1, e1 - emin), BigShl(m2, e2 - emin)) <= 0

\* the relative tolerance 2^-RelTolBits: four units of binary64 roundoff
RelTolBits == MantBits - 2

\* x <= hi * (1 + 2^-RelTolBits) and lo * (1 - 2^-RelTolBits) <= x, exactly,
\* for finite positive values
AtMostWithinTol(x, hi) ==
    ExactLeq(x.m, x.e,
             BigMul(hi.m, BigAdd(BigShl(<< 1 >>, RelTolBits), << 1 >>)),
             hi.e - RelTolBits)

AtLeastWithinTol(x, lo) ==
    ExactLeq(BigMul(lo.m, BigSub(BigShl(<< 1 >>, RelTolBits), << 1 >>)),
             lo.e - RelTolBits,
             x.m, x.e)

\* C8 as amended: f1 lies between precision and recall up to the rounding
\* of its three float64 operations: min * (1 - 2^-51) <= f1 <= max * (1 + 2^-51).
C8_F1BetweenUpToRounding ==
    (Returned /\ Valid /\ BothPositive(results.precision, results.recall)) =>
        /\ FLess(Zero, results.f1)
        /\ IsFinite(results.f1)
        /\ AtLeastWithinTol(results.f1,
                            FMin(results.precision, results.recall))
        /\ AtMostWithinTol(results.f1,
                           FMax(results.precision, results.recall))

\* precision = recall = 4/5, where f1 comes out one unit in the last place
\* above both
C8_Witness ==
    /\ Returned /\ Valid
    /\ TP = 4 /\ FP = 1 /\ FN = 1
    /\ results.precision = results.recall
    /\ FLess(results.precision, results.f1)

\* C9: for valid inputs the observed rates sum to 1 and the predicted rates
\* sum to 1 (float64 addition, Python ==); every element is in exactly one
\* of the positive and the negative mask of its sequence.
C9_RatesSumToOne ==
    (Returned /\ Valid) =>
        /\ FEq(FAdd(results.observed_positive_rate,
                    results.observed_negative_rate), One)
        /\ FEq(FAdd(results.predicted_positive_rate,
                    results.predicted_negative_rate), One)
        /\ \A i \in 1..Len(observed) :
               /\ observed_positives(observed)[i]
                      # observed_negatives(observed)[i]
               /\ predicted_positives(predicted)[i]
                      # predicted_negatives(predicted)[i]

\* rates 1/3 and 2/3 observed, 1/6 and 5/6 predicted: none exact in binary
C9_Witness ==
    /\ Returned /\ Valid
    /\ Len(observed) = 6
    /\ ObservedAs(1) = 2 /\ PredictedAs(1) = 1
    /\ FEq(FAdd(results.observed_positive_rate,
                results.observed_negative_rate), One)

NonLikelihoodKeys == Keys \ { "positive_likelihood", "negative_likelihood" }

\* C10: for valid inputs on which a report is returned, each of the 16
\* non-likelihood metrics is in [0,1] and both likelihoods are > 0.
C10_ValuesInRange ==
    (Returned /\ Valid) =>
        /\ \A key \in NonLikelihoodKeys : InUnitInterval(results[key])
        /\ FLess(Zero, results.positive_likelihood)
        /\ FLess(Zero, results.negative_likelihood)

\* the call has ended, by returning or by raising
Called == pc # "ready"

\* C11: when observed holds no positive label, calculate_accuracy raises or
\* flags an error for the undefined metrics and returns no mapping that
\* holds a value under sensitivity, recall, positive_predictive_value or
\* the likelihoods.
C11_AllZeroObservedIsRejected ==
    (Called /\ Valid /\ ObservedAs(1) = 0) =>
        /\ pc = "raised"
        /\ ~(Returned /\ { "sensitivity", "recall", "positive_predictive_value",
                           "positive_likelihood", "negative_likelihood" }
                             \subseteq DOMAIN results)

\* C12: when predicted holds no positive label and observed at least one
\* (observed = [1,1,1], predicted = [0,0,0]), calculate_accuracy raises
\* rather than returning a mapping whose precision is not-a-number.
C12_NoPredictedPositiveIsRejected ==
    (Called /\ Valid /\ PredictedAs(1) = 0 /\ ObservedAs(1) >= 1) =>
        /\ pc = "raised"
        /\ ~(Returned /\ IsNaN(results.precision))

\* C13: for sequences of different lengths, a length of 1 included,
\* calculate_accuracy fails at once and returns no report.
C13_LengthMismatchIsRejected ==
    (Called /\ Len(observed) # Len(predicted)) =>
        (pc = "raised" /\ results = << >>)

\* C14: for equal-length sequences with an element that is neither 0 nor 1,
\* calculate_accuracy fails and returns no report.
C14_InvalidLabelIsRejected ==
    (Called /\ Len(observed) = Len(predicted)
            /\ ~(IsLabelSeq(observed) /\ IsLabelSeq(predicted))) =>
        (pc = "raised" /\ results = << >>)


\* ------------------------------------------------------------------------
\* The divisors of the function's divisions
\* ------------------------------------------------------------------------

\* the divisors of the divisions by counts only
DenominatorsOfCountsOnly(obs, pred) ==
    LET op == observed_positives(obs)
        on == observed_negatives(obs)
        pp == predicted_positives(pred)
        pn == predicted_negatives(pred)
        tp == true_positives(pp, op)
        fp == false_positives(pp, op)
    IN  [ observed_positive_rate    |-> FromInt(Len(op)),
          observed_negative_rate    |-> FromInt(Len(on)),
          predicted_positive_rate   |-> FromInt(Len(pp)),
          predicted_negative_rate   |-> FromInt(Len(pn)),
          accuracy                  |-> FromInt(Len(ArrayEq(pred, obs))),
          precision                 |-> FromInt(np_sum(tp) + np_sum(fp)),
          recall                    |-> FromInt(np_sum(op)),
          specificity               |-> FromInt(np_sum(on)),
          positive_predictive_value |-> FromInt(np_sum(op)),
          negative_predictive_value |-> FromInt(np_sum(on)) ]

\* the divisor of every division calculate_accuracy(obs, pred) carries out,
\* under the key of the metric the division computes (np.mean divides by the
\* number of elements; the other keys are assigned without a division)
Denominators(obs, pred) ==
    LET op   == observed_positives(obs)
        on   == observed_negatives(obs)
        pp   == predicted_positives(pred)
        pn   == predicted_negatives(pred)
        tp   == true_positives(pp, op)
        fp   == false_positives(pp, op)
        tn   == true_negatives(pn, on)
        prec == precision(tp, fp)
        rec  == recall(tp, op)
        spec == specificity(tn, on)
    IN  [ observed_positive_rate    |-> FromInt(Len(op)),
          observed_negative_rate    |-> FromInt(Len(on)),
          predicted_positive_rate   |-> FromInt(Len(pp)),
          predicted_negative_rate   |-> FromInt(Len(pn)),
          accuracy                  |-> FromInt(Len(ArrayEq(pred, obs))),
          precision                 |-> FromInt(np_sum(tp) + np_sum(fp)),
          recall                    |-> FromInt(np_sum(op)),
          f1                        |-> FAdd(prec, rec),
          specificity               |-> FromInt(np_sum(on)),
          positive_likelihood       |-> FSub(One, spec),
          negative_likelihood       |-> spec,
          positive_predictive_value |-> FromInt(np_sum(op)),
          negative_predictive_value |-> FromInt(np_sum(on)) ]

\* the metrics whose division in the call just made had a zero divisor
ZeroDenominators ==
    LET d == Denominators(observed, predicted)
    IN  { key \in DOMAIN d : IsZero(d[key]) }

\* C15 (as stated): for valid inputs with at least one observed positive,
\* one observed negative and one predicted positive, no metric is computed
\* with a zero denominator.
C15_ZeroDenominatorOnlyWhenClassMissing ==
    (Returned /\ Valid /\ ObservedAs(1) >= 1 /\ ObservedAs(0) >= 1
              /\ PredictedAs(1) >= 1) =>
        ZeroDenominators = {}

\* C15 (amended): for valid inputs, no metric is computed with a zero
\* denominator exactly when there is at least one true positive, one false
\* positive and one true negative: f1 divides by precision + recall, which
\* is zero without a true positive, positive_likelihood by 1 - specificity,
\* which is zero without a false positive, and negative_likelihood by
\* specificity, which is zero without a true negative (each of them where
\* the divisor itself is defined).
C15_ZeroDenominatorIffCaseMissing ==
    (Returned /\ Valid) =>
        /\ (ZeroDenominators = {}) <=> (TP >= 1 /\ FP >= 1 /\ TN >= 1)
        /\ (TP = 0 /\ ObservedAs(1) >= 1 /\ PredictedAs(1) >= 1) =>
               "f1" \in ZeroDenominators
        /\ (FP = 0 /\ ObservedAs(0) >= 1) =>
               "positive_likelihood" \in ZeroDenominators
        /\ (TN = 0 /\ ObservedAs(0) >= 1) =>
               "negative_likelihood" \in ZeroDenominators

\* both classes observed and a positive predicted, yet f1 divides by zero
C15_Witness ==
    /\ Returned /\ Valid
    /\ ObservedAs(1) >= 1 /\ ObservedAs(0) >= 1 /\ PredictedAs(1) >= 1
    /\ TP = 0
    /\ "f1" \in ZeroDenominators
    /\ IsNaN(results.f1)


\* ------------------------------------------------------------------------
\* The demonstration cell's print: "{0:0.3}".format(value)
\* ------------------------------------------------------------------------

\* the precision of the format specification 0.3: significant digits
Precision == 3

RECURSIVE IntPow10(_)
IntPow10(n) == IF n = 0 THEN 1 ELSE 10 * IntPow10(n - 1)

RECURSIVE BigPow10(_)
BigPow10(n) == IF n = 0 THEN << 1 >> ELSE BigMulSmall(BigPow10(n - 1), 10)

NatPart(n) == IF n > 0 THEN n ELSE 0

\* m * 2^e * 10^p = ScaledNum(m, e, p) / ScaledDen(e, p), both naturals
ScaledNum(m, e, p) == BigShl(BigMul(m, BigPow10(NatPart(p))), NatPart(e))

ScaledDen(e, p) == BigShl(BigPow10(NatPart(-p)), NatPart(-e))

\* floor(log10 |x|) for finite non-zero x: 2^(b-1) <= |x| < 2^b bounds it
\* to two candidates, told apart by an exact comparison with a power of 10
DecimalExponent(x) ==
    LET b  == BigBitLen(x.m) + x.e
        d0 == ((b - 1) * 30103) \div 100000
    IN  IF BigCmp(ScaledNum(x.m, x.e, -(d0 + 1)),
                  ScaledDen(x.e, -(d0 + 1))) >= 0
        THEN d0 + 1 ELSE d0

\* the largest q in lo..hi with q * den <= num, where lo * den <= num
RECURSIVE FloorQuot(_, _, _, _)
FloorQuot(num, den, lo, hi) ==
    IF lo = hi THEN lo
    ELSE LET mid == (lo + hi + 1) \div 2
         IN  IF BigCmp(BigMulSmall(den, mid), num) <= 0
             THEN FloorQuot(num, den, mid, hi)
             ELSE FloorQuot(num, den, lo, mid - 1)

\* num / den rounded to the nearest integer, ties to even, for a quotient
\* below 10^Precision
RoundQuot(num, den) ==
    LET q    == FloorQuot(num, den, 0, IntPow10(Precision))
        r    == BigSub(num, BigMulSmall(den, q))
        half == BigCmp(BigMulSmall(r, 2), den)
    IN  IF half > 0 \/ (half = 0 /\ q % 2 = 1) THEN q + 1 ELSE q

\* finite non-zero x correctly rounded to Precision significant digits:
\* |x| ~ digits * 10^(exp - Precision + 1), 10^(Precision-1) <= digits
\* < 10^Precision
RoundToPrecision(x) ==
    LET d == DecimalExponent(x)
        p == Precision - 1 - d
        n == RoundQuot(ScaledNum(x.m, x.e, p), ScaledDen(x.e, p))
    IN  IF n = IntPow10(Precision)
        THEN [digits |-> IntPow10(Precision - 1), exp |-> d + 1]
        ELSE [digits |-> n, exp |-> d]

Digit(i) == << "0", "1", "2", "3", "4", "5", "6", "7", "8", "9" >>[i + 1]

\* the last w decimal digits of n
RECURSIVE Digits(_, _)
Digits(n, w) ==
    IF w = 0 THEN "" ELSE Digits(n \div 10, w - 1) \o Digit(n % 10)

RECURSIVE NumWidth(_)
NumWidth(n) == IF n < 10 THEN 1 ELSE 1 + NumWidth(n \div 10)

\* how many of the last w digits of n are trailing zeros
RECURSIVE TrailingZeros(_, _)
TrailingZeros(n, w) ==
    IF w > 0 /\ n % 10 = 0 THEN 1 + TrailingZeros(n \div 10, w - 1) ELSE 0

\* fixed-point notation, trailing zeros removed but one digit kept after
\* the point; used for -4 <= exp < Precision - 1
FixedNotation(digits, exp) ==
    LET w  == Precision - 1 - exp
        ip == digits \div IntPow10(w)
        fr == digits % IntPow10(w)
        z  == TrailingZeros(fr, w - 1)
    IN  Digits(ip, NumWidth(ip)) \o "." \o Digits(fr \div IntPow10(z), w - z)

\* scientific notation, trailing zeros and a bare point removed, exponent
\* of at least two digits
ScientificNotation(digits, exp) ==
    LET w    == Precision - 1
        lead == digits \div IntPow10(w)
        fr   == digits % IntPow10(w)
        z    == TrailingZeros(fr, w)
        a    == IF exp < 0 THEN -exp ELSE exp
    IN  Digit(lead)
        \o (IF z = w THEN "" ELSE "." \o Digits(fr \div IntPow10(z), w - z))
        \o "e" \o (IF exp < 0 THEN "-" ELSE "+")
        \o Digits(a, IF NumWidth(a) < 2 THEN 2 ELSE NumWidth(a))

\* "{0:0.3}".format(value) for a float64 value
format(value) ==
    IF IsNaN(value) THEN "nan"
    ELSE IF ~IsFinite(value) THEN (IF value.neg THEN "-inf" ELSE "inf")
    ELSE IF IsZero(value) THEN (IF value.neg THEN "-0.0" ELSE "0.0")
    ELSE LET r == RoundToPrecision(value)
         IN  (IF value.neg THEN "-" ELSE "")
             \o (IF -4 <= r.exp /\ r.exp < Precision - 1
                 THEN FixedNotation(r.digits, r.exp)
                 ELSE ScientificNotation(r.digits, r.exp))

\* the line print (key, "{0:0.3}".format(value)) writes for a key of the
\* returned mapping
PrintedLine(key) == key \o " " \o format(results[key])

\* what the demonstration cell printed, as recorded in the notebook
RecordedOutput ==
    { "observed_positive_rate 0.4", "observed_negative_rate 0.6",
      "predicted_positive_rate 0.4", "predicted_negative_rate 0.6",
      "accuracy 0.8", "precision 0.75", "recall 0.75", "f1 0.75",
      "sensitivity 0.75", "specificity 0.833", "positive_likelihood 4.5",
      "negative_likelihood 0.3", "false_positive_rate 0.167",
      "false_negative_rate 0.25", "true_positive_rate 0.75",
      "true_negative_rate 0.833", "positive_predictive_value 0.75",
      "negative_predictive_value 0.833" }

\* the demonstration cell's call has returned
DemoReturned ==
    Returned /\ observed = DemoObserved /\ predicted = DemoPredicted

\* x is a/b up to four units of binary64 roundoff, for a, b > 0
NearRatio(x, a, b) ==
    /\ IsFinite(x) /\ ~IsZero(x) /\ ~x.neg
    /\ AtLeastWithinTol(x, IntTrueDivide(a, b))
    /\ AtMostWithinTol(x, IntTrueDivide(a, b))

\* C16 (as stated): for the demonstration lists the call returns accuracy
\* 4/5, precision = recall = f1 = 3/4, specificity 5/6, positive_likelihood
\* 9/2, negative_likelihood 3/10, false_positive_rate 1/6,
\* false_negative_rate 1/4 and both positive rates 2/5, each as the float64
\* of that quotient.
C16_DemoValuesExact ==
    DemoReturned =>
        /\ results.accuracy = IntTrueDivide(4, 5)
        /\ results.precision = IntTrueDivide(3, 4)
        /\ results.recall = IntTrueDivide(3, 4)
        /\ results.f1 = IntTrueDivide(3, 4)
        /\ results.specificity = IntTrueDivide(5, 6)
        /\ results.positive_likelihood = IntTrueDivide(9, 2)
        /\ results.negative_likelihood = IntTrueDivide(3, 10)
        /\ results.false_positive_rate = IntTrueDivide(1, 6)
        /\ results.false_negative_rate = IntTrueDivide(1, 4)
        /\ results.observed_positive_rate = IntTrueDivide(2, 5)
        /\ results.predicted_positive_rate = IntTrueDivide(2, 5)

\* C16 (amended): for the demonstration lists the call returns accuracy,
\* precision, recall, f1, specificity, negative_likelihood,
\* false_negative_rate and both positive rates as the float64 of 4/5, 3/4,
\* 3/4, 3/4, 5/6, 3/10, 1/4 and 2/5; positive_likelihood and
\* false_positive_rate equal 9/2 and 1/6 only up to rounding (they are
\* computed from 1 - specificity); and the cell prints all 18 values, at
\* three significant digits, as recorded.
C16_DemoValuesAsPrinted ==
    DemoReturned =>
        /\ results.accuracy = IntTrueDivide(4, 5)
        /\ results.precision = IntTrueDivide(3, 4)
        /\ results.recall = IntTrueDivide(3, 4)
        /\ results.f1 = IntTrueDivide(3, 4)
        /\ results.specificity = IntTrueDivide(5, 6)
        /\ NearRatio(results.positive_likelihood, 9, 2)
        /\ results.negative_likelihood = IntTrueDivide(3, 10)
        /\ NearRatio(results.false_positive_rate, 1, 6)
        /\ results.false_negative_rate = IntTrueDivide(1, 4)
        /\ results.observed_positive_rate = IntTrueDivide(2, 5)
        /\ results.predicted_positive_rate = IntTrueDivide(2, 5)
        /\ { PrintedLine(key) : key \in DOMAIN results } = RecordedOutput

\* the demonstration call has returned, with a positive_likelihood that is
\* not the float64 9/2 and yet prints as 4.5
C16_Witness ==
    /\ DemoReturned
    /\ results.positive_likelihood # IntTrueDivide(9, 2)
    /\ results.false_positive_rate # IntTrueDivide(1, 6)
    /\ PrintedLine("positive_likelihood") = "positive_likelihood 4.5"
    /\ PrintedLine("false_positive_rate") = "false_positive_rate 0.167"


\* C17: for every valid input in which predicted equals observed element
\* for element and both classes occur, the call returns accuracy,
\* precision, recall, f1 and specificity all equal to 1.
C17_PerfectPredictionScoresOne ==
    (Returned /\ Valid /\ predicted = observed
              /\ ObservedAs(1) >= 1 /\ ObservedAs(0) >= 1) =>
        /\ results.accuracy = One
        /\ results.precision = One
        /\ results.recall = One
        /\ results.f1 = One
        /\ results.specificity = One

\* the spec's scenario: observed = predicted = [1,1,0,0], all five at 1
C17_Witness ==
    /\ Returned
    /\ observed = << 1, 1, 0, 0 >> /\ predicted = << 1, 1, 0, 0 >>
    /\ results.accuracy = One /\ results.f1 = One
    /\ results.specificity = One


NumRows == 4
SampleSize == 1
n_splits == 2

\* how many of the notebook's nine regularisation values the sweep is run
\* over
NumRegValues == 2

\* reg_values, in thousandths, cut to the first NumRegValues
reg_values ==
    SubSeq(<< 1, 3, 10, 30, 100, 300, 1000, 3000, 10000 >>, 1, NumRegValues)

\* the files that are tried: every assignment of Survived to NumRows rows
\* that differ in their features, the first row a 0 as in the Titanic file
\* (numbers stand for the floats of astype)
Datasets ==
    { [i \in 1..NumRows |->
          [index |-> i - 1, PassengerId |-> i, Survived |-> s[i],
           Pclass |-> 1 + (i % 3), Age |-> 20 + i]] :
      s \in { t \in [1..NumRows -> {0, 1}] : t[1] = 0 } }

\* the orders in which n distinct rows can be drawn out of m
Draws(m, n) ==
    { s \in [1..n -> 1..m] : \A i, j \in 1..n : s[i] = s[j] => i = j }

\* arr[idx] for an array of positions idx (positions count from 1 here)
Take(arr, idx) == [j \in 1..Len(idx) |-> arr[idx[j]]]

\* the products row[i] * row[j], i <= j, in the order of PolynomialFeatures
RECURSIVE Products(_, _)
Products(row, i) ==
    IF i > Len(row) THEN << >>
    ELSE [j \in 1..(Len(row) - i + 1) |-> row[i] * row[i + j - 1]]
         \o Products(row, i + 1)

\* PolynomialFeatures(2).fit_transform: bias, the features, their products
fit_transform(arr) ==
    [i \in 1..Len(arr) |-> << 1 >> \o arr[i] \o Products(arr[i], 1)]

RECURSIVE Ascending(_)
Ascending(S) ==
    IF S = {} THEN << >>
    ELSE LET least == CHOOSE a \in S : \A b \in S : a <= b
         IN  << least >> \o Ascending(S \ { least })

\* StratifiedKFold without shuffling. Classes are numbered by first
\* appearance; the sorted labels are dealt to the folds in turn, which
\* fixes how many rows of each class a fold tests; the rows of a class, in
\* their order, then fill fold 0, fold 1, ... up to those numbers.
y_encoded(labels, i) == IF labels[i] = labels[1] THEN 0 ELSE 1

y_counts(labels, c) ==
    Cardinality({ i \in 1..Len(labels) : y_encoded(labels, i) = c })

\* the class at place j (from 0) of the sorted encoded labels, of which n0
\* are of class 0
y_order(n0, j) == IF j < n0 THEN 0 ELSE 1

\* rows of class c tested in the folds before fold f (folds from 0), out
\* of n rows of which n0 are of class 0
AllocatedBefore(n, n0, f, c) ==
    Cardinality({ j \in 0..(n - 1) : j % n_splits < f /\ y_order(n0, j) = c })

\* the fold (from 0) that tests each row
test_folds(labels) ==
    LET n  == Len(labels)
        n0 == y_counts(labels, 0)
    IN  [i \in 1..n |->
            LET c    == y_encoded(labels, i)
                rank == Cardinality({ j \in 1..(i - 1) :
                                        y_encoded(labels, j) = c })
            IN  CHOOSE f \in 0..(n_splits - 1) :
                    /\ AllocatedBefore(n, n0, f, c) <= rank
                    /\ rank < AllocatedBefore(n, n0, f + 1, c)]

\* the k-th (from 1) pair train_index, test_index of skf.split(X, y)
split(arr, labels, k) ==
    LET folds == test_folds(labels)
        test  == { i \in 1..Len(arr) : folds[i] = k - 1 }
    IN  [train_index |-> Ascending((1..Len(arr)) \ test),
         test_index  |-> Ascending(test)]

\* cell 3: data = pd.read_csv(...); data = data.astype(float)
LoadData ==
    /\ nb_cell = 3
    /\ data' \in Datasets
    /\ nb_cell' = 4
    /\ UNCHANGED << X, y, reg_i, fold, train_index, test_index >>
    /\ UNCHANGED sweep_results
    /\ UNCHANGED vars

\* cell 4: data.drop('PassengerId', inplace=True, axis=1)
DropPassengerId ==
    /\ nb_cell = 4
    /\ data' = [i \in 1..Len(data) |->
                   [index |-> data[i].index, Survived |-> data[i].Survived,
                    Pclass |-> data[i].Pclass, Age |-> data[i].Age]]
    /\ nb_cell' = 5
    /\ UNCHANGED << X, y, reg_i, fold, train_index, test_index >>
    /\ UNCHANGED sweep_results
    /\ UNCHANGED vars

\* X_df = data.drop('Survived',axis=1).values of a frame
FeaturesOf(frame) ==
    [i \in 1..Len(frame) |-> << frame[i].Pclass, frame[i].Age >>]

\* data['Survived'].values of a frame
LabelsOf(frame) == [i \in 1..Len(frame) |-> frame[i].Survived]

\* cell 5: X_df, y_df from data; X = X_df.values; y = y_df.values
DivideXy ==
    /\ nb_cell = 5
    /\ X' = FeaturesOf(data)
    /\ y' = LabelsOf(data)
    /\ nb_cell' = 6
    /\ UNCHANGED << data, reg_i, fold, train_index, test_index >>
    /\ UNCHANGED sweep_results
    /\ UNCHANGED vars

\* cell 6: data = data.sample(150), rows drawn without replacement
Sample ==
    /\ nb_cell = 6
    /\ Len(data) >= SampleSize
    /\ \E s \in Draws(Len(data), SampleSize) : data' = Take(data, s)
    /\ nb_cell' = 7
    /\ UNCHANGED << X, y, reg_i, fold, train_index, test_index >>
    /\ UNCHANGED sweep_results
    /\ UNCHANGED vars

\* cell 7: poly = PolynomialFeatures(2); X = poly.fit_transform(X)
\* (cell 8 only defines standardise_data)
AddPolynomialFeatures ==
    /\ nb_cell = 7
    /\ X' = fit_transform(X)
    /\ nb_cell' = 9
    /\ UNCHANGED << data, y, reg_i, fold, train_index, test_index >>
    /\ UNCHANGED sweep_results
    /\ UNCHANGED vars

\* np.mean of a list of float64 values: their sum, added up in order,
\* over their number
RECURSIVE FSum(_, _)
FSum(values, n) ==
    IF n = 0 THEN Zero ELSE FAdd(FSum(values, n - 1), values[n])

np_mean_of(values) == FDiv(FSum(values, Len(values)), FromInt(Len(values)))

\* the labels model.predict can give for n rows: one of the two classes
\* of the fitted model for each row
Predictions(n) == [1..n -> {0, 1}]

\* the values np.mean(y_pred == labels) can take over those predictions
Accuracies(labels) ==
    { np_mean(ArrayEq(y_pred, labels)) : y_pred \in Predictions(Len(labels)) }

\* LogisticRegression.fit needs both classes among the training labels
Fittable(labels) == \E i, j \in 1..Len(labels) : labels[i] # labels[j]

\* cell 9 up to the first for reg in reg_values and the head of its body
SweepStart ==
    /\ nb_cell = 9 /\ reg_i = 0
    /\ reg_i' = 1
    /\ fold' = 0
    /\ training_acc_results' = << >>
    /\ test_acc_results' = << >>
    /\ training_k_results' = << >>
    /\ test_k_results' = << >>
    /\ UNCHANGED << nb_cell, data, X, y, train_index, test_index >>
    /\ UNCHANGED vars

\* one pass of for train_index, test_index in skf.split(X, y): the split,
\* the fit on the standardised training rows, the two predictions and
\* their accuracies, appended to the lists of this reg
FoldStep ==
    LET next_split == split(X, y, fold + 1)
        train_labels == Take(y, next_split.train_index)
        test_labels == Take(y, next_split.test_index)
    IN  /\ nb_cell = 9 /\ reg_i >= 1 /\ fold < n_splits
        /\ Fittable(train_labels)
        /\ train_index' = next_split.train_index
        /\ test_index' = next_split.test_index
        /\ \E accuracy_train \in Accuracies(train_labels),
              accuracy_test \in Accuracies(test_labels) :
               /\ training_k_results' =
                      Append(training_k_results, accuracy_train)
               /\ test_k_results' = Append(test_k_results, accuracy_test)
        /\ fold' = fold + 1
        /\ UNCHANGED << nb_cell, data, X, y, reg_i >>
        /\ UNCHANGED << training_acc_results, test_acc_results >>
        /\ UNCHANGED vars

\* the pass stops at model.fit, which raises ValueError when the training
\* labels of the split are all of one class; the cell ends there (-1)
FoldRaises ==
    /\ nb_cell = 9 /\ reg_i >= 1 /\ fold < n_splits
    /\ ~Fittable(Take(y, split(X, y, fold + 1).train_index))
    /\ train_index' = split(X, y, fold + 1).train_index
    /\ test_index' = split(X, y, fold + 1).test_index
    /\ nb_cell' = -1
    /\ UNCHANGED << data, X, y, reg_i, fold >>
    /\ UNCHANGED sweep_results
    /\ UNCHANGED vars

\* a variant that never empties the lists of the splits
RegEndKeepingFoldResults ==
    /\ nb_cell = 9 /\ reg_i >= 1 /\ fold = n_splits
    /\ training_acc_results' =
           Append(training_acc_results, np_mean_of(training_k_results))
    /\ test_acc_results' =
           Append(test_acc_results, np_mean_of(test_k_results))
    /\ IF reg_i < Len(reg_values)
       THEN reg_i' = reg_i + 1 /\ fold' = 0 /\ UNCHANGED nb_cell
       ELSE nb_cell' = 10 /\ UNCHANGED << reg_i, fold >>
    /\ UNCHANGED << training_k_results, test_k_results >>
    /\ UNCHANGED << data, X, y, train_index, test_index >>
    /\ UNCHANGED vars

\* the splits of a reg are used up: the means of its accuracies are
\* appended, then on to the next reg, whose body starts by emptying the
\* lists of the splits, or the cell ends
RegEnd ==
    /\ nb_cell = 9 /\ reg_i >= 1 /\ fold = n_splits
    /\ training_acc_results' =
           Append(training_acc_results, np_mean_of(training_k_results))
    /\ test_acc_results' =
           Append(test_acc_results, np_mean_of(test_k_results))
    /\ IF reg_i < Len(reg_values)
       THEN /\ reg_i' = reg_i + 1 /\ fold' = 0
            /\ training_k_results' = << >> /\ test_k_results' = << >>
            /\ UNCHANGED nb_cell
       ELSE /\ nb_cell' = 10
            /\ UNCHANGED << reg_i, fold, training_k_results, test_k_results >>
    /\ UNCHANGED << data, X, y, train_index, test_index >>
    /\ UNCHANGED vars

\* the kernel after the cells that only import and download
InitNotebook ==
    /\ observed = << >> /\ predicted = << >>
    /\ pc = "ready" /\ results = << >>
    /\ nb_cell = 3
    /\ data = << >> /\ X = << >> /\ y = << >>
    /\ reg_i = 0 /\ fold = 0
    /\ train_index = << >> /\ test_index = << >>
    /\ training_acc_results = << >> /\ test_acc_results = << >>
    /\ training_k_results = << >> /\ test_k_results = << >>

NextNotebook ==
    \/ LoadData
    \/ DropPassengerId
    \/ DivideXy
    \/ Sample
    \/ AddPolynomialFeatures
    \/ SweepStart
    \/ FoldStep
    \/ FoldRaises
    \/ RegEnd

SpecNotebook == InitNotebook /\ [][NextNotebook]_<< vars, nbvars >>

\* the arrays of the fold being fitted and scored
X_train == Take(X, train_index)
X_test == Take(X, test_index)
y_train == Take(y, train_index)
y_test == Take(y, test_index)

\* a fold of the sweep has been split and is being fitted
InFold == nb_cell = 9 /\ fold >= 1

\* C20: in the notebook run in order, the X and y that the k-fold loop
\* splits and fits on hold only the rows drawn by data.sample: as many
\* rows as were drawn, and each fold's training and test rows are the
\* features and label of a row of the sampled data.
C20_SweepUsesOnlySampledRows ==
    InFold =>
        /\ Len(X) = SampleSize /\ Len(y) = SampleSize
        /\ Len(X_train) + Len(X_test) = Len(data)
        /\ \A i \in 1..Len(X) :
               \E j \in 1..Len(data) :
                   /\ << X[i] >> = fit_transform(FeaturesOf(<< data[j] >>))
                   /\ y[i] = data[j].Survived


\* the sweep is inside the loop over reg_values
InSweep == nb_cell = 9 /\ reg_i >= 1

\* the sweep cell has run to its end
SweepDone == nb_cell = 10

\* a step that appends to the lists of means
MeansAppended ==
    \/ Len(training_acc_results') # Len(training_acc_results)
    \/ Len(test_acc_results') # Len(test_acc_results)

\* C21: the lists of a reg hold one accuracy per split gone through, each
\* computed on that split's own rows; a pair of means is appended only
\* when all n_splits splits of the reg are in, it is the mean of exactly
\* those accuracies, and it is the entry at the place of the reg in
\* reg_values; when the cell ends both lists of means have one entry per
\* element of reg_values.
C21_OneMeanPerRegValue ==
    [][ /\ InSweep =>
               /\ Len(training_k_results) = fold
               /\ Len(test_k_results) = fold
               /\ Len(training_acc_results) = reg_i - 1
               /\ Len(test_acc_results) = reg_i - 1
        /\ (InSweep /\ fold' = fold + 1) =>
               \E accuracy_train \in Accuracies(y_train'),
                  accuracy_test \in Accuracies(y_test') :
                   /\ training_k_results' =
                          Append(training_k_results, accuracy_train)
                   /\ test_k_results' = Append(test_k_results, accuracy_test)
        /\ MeansAppended =>
               /\ InSweep
               /\ Len(training_k_results) = n_splits
               /\ Len(test_k_results) = n_splits
               /\ training_acc_results' =
                      Append(training_acc_results,
                             np_mean_of(training_k_results))
               /\ test_acc_results' =
                      Append(test_acc_results, np_mean_of(test_k_results))
               /\ Len(training_acc_results') = reg_i
        /\ SweepDone' =>
               /\ Len(training_acc_results') = Len(reg_values)
               /\ Len(test_acc_results') = Len(reg_values)
      ]_<< vars, nbvars >>

\* the cell has ended with one pair of means per reg, the first reg's
\* training mean 1 and the last reg's 0, so that an accuracy carried over
\* from one reg to the next would show
C21_Witness ==
    /\ SweepDone
    /\ Len(training_acc_results) = Len(reg_values)
    /\ Len(test_acc_results) = Len(reg_values)
    /\ training_acc_results[1] = One
    /\ training_acc_results[Len(reg_values)] = Zero
    /\ test_acc_results[1] = IntTrueDivide(1, 2)


\* ------------------------------------------------------------------------
\* standardise_data and the StandardScaler it uses, in exact arithmetic
\* (the float64 rounding of the scaler is not represented)
\* ------------------------------------------------------------------------

RECURSIVE GCD(_, _)
GCD(a, b) == IF b = 0 THEN a ELSE GCD(b, a % b)

RECURSIVE ColumnSum(_, _, _)
ColumnSum(arr, col, n) ==
    IF n = 0 THEN 0 ELSE ColumnSum(arr, col, n - 1) + arr[n][col]

\* the sum of (n * x - total)^2 over the first k of the n rows of a column:
\* n^3 times the column's variance when k = n
RECURSIVE ColumnSpread(_, _, _, _)
ColumnSpread(arr, col, total, k) ==
    IF k = 0 THEN 0
    ELSE ColumnSpread(arr, col, total, k - 1)
         + (Len(arr) * arr[k][col] - total) * (Len(arr) * arr[k][col] - total)

\* sc.fit(arr): per column, mean_ = total / n and var_ = spread / n^3
fit(arr) ==
    [n |-> Len(arr),
     total  |-> [col \in 1..Len(arr[1]) |-> ColumnSum(arr, col, Len(arr))],
     spread |-> [col \in 1..Len(arr[1]) |->
                    ColumnSpread(arr, col, ColumnSum(arr, col, Len(arr)),
                                 Len(arr))]]

\* (x - mean_) / scale_ for a column of a fitted scaler, scale_ the square
\* root of var_, or 1 where var_ is 0; the value is given by its sign and
\* its square as a fraction in lowest terms
Standardised(sc, col, x) ==
    LET dev == sc.n * x - sc.total[col]
        num == IF sc.spread[col] = 0 THEN dev * dev ELSE sc.n * dev * dev
        den == IF sc.spread[col] = 0 THEN sc.n * sc.n ELSE sc.spread[col]
        g   == GCD(num, den)
    IN  [neg |-> dev < 0, square |-> << num \div g, den \div g >>]

\* sc.transform(arr)
transform(sc, arr) ==
    [i \in 1..Len(arr) |->
        [col \in 1..Len(arr[i]) |-> Standardised(sc, col, arr[i][col])]]

\* a variant that sets the scaler up on the training and test rows together
standardise_data_fitted_on_all(train, test) ==
    LET sc == fit(train \o test)
    IN  << transform(sc, train), transform(sc, test) >>

\* standardise_data(X_train, X_test): << train_std, test_std >>
standardise_data(train, test) ==
    LET sc == fit(train)
    IN  << transform(sc, train), transform(sc, test) >>

\* the standardised arrays of the fold being fitted and scored
X_train_std == standardise_data(X_train, X_test)[1]
X_test_std == standardise_data(X_train, X_test)[2]

\* other test sets the fold's call could have been given: each single row
\* of X, the training rows themselves, and all rows
OtherTestSets ==
    { << X[i] >> : i \in 1..Len(X) } \cup { X_train, X }

\* C22: the scaler is set up on the training set only: for the training
\* rows of a fold, train_std is the same whatever test set is passed, the
\* test set is scaled with the parameters fitted on the training rows,
\* whatever it is, and train_std is scaled with those same parameters.
C22_ScalerSetUpOnTrainingSetOnly ==
    InFold =>
        /\ X_train_std = transform(fit(X_train), X_train)
        /\ X_test_std = transform(fit(X_train), X_test)
        /\ \A other \in OtherTestSets :
               /\ standardise_data(X_train, other)[1] = X_train_std
               /\ standardise_data(X_train, other)[2]
                      = transform(fit(X_train), other)

\* a fold whose test rows, scaled by a scaler of their own, would come out
\* differently from what the call returns
C22_Witness ==
    /\ InFold
    /\ Len(X_test) >= 1
    /\ X_test_std # transform(fit(X_test), X_test)
    /\ \E col \in 1..Len(X_train[1]) : fit(X_train).spread[col] > 0


\* ------------------------------------------------------------------------
\* The four masks against the conventional confusion-matrix cells
\* ------------------------------------------------------------------------

\* C23: for valid inputs the masks are the conventional ones, index by
\* index: false_positives[i] iff predicted[i] = 1 and observed[i] = 0, and
\* false_negatives[i] (predicted_negatives & the negation of
\* observed_negatives) iff predicted[i] = 0 and observed[i] = 1.
C23_MasksAreConventional ==
    (Returned /\ Valid) =>
        LET fp == false_positives(predicted_positives(predicted),
                                  observed_positives(observed))
            fn == false_negatives(predicted_negatives(predicted),
                                  observed_negatives(observed))
        IN  /\ Len(fp) = Len(observed)
            /\ Len(fn) = Len(observed)
            /\ \A i \in 1..Len(observed) :
                   /\ fp[i] <=> (predicted[i] = 1 /\ observed[i] = 0)
                   /\ fn[i] <=> (predicted[i] = 0 /\ observed[i] = 1)

\* a call with a false positive, a false negative and a true negative at
\* three places of its lists
C23_Witness ==
    /\ Returned /\ Valid
    /\ Len(observed) = 3
    /\ observed = << 0, 1, 0 >>
    /\ predicted = << 1, 0, 0 >>
    /\ false_positives(predicted_positives(predicted),
                       observed_positives(observed)) = << TRUE, FALSE, FALSE >>
    /\ false_negatives(predicted_negatives(predicted),
                       observed_negatives(observed)) = << FALSE, TRUE, FALSE >>

\* C24: for valid inputs TP + FN is the number of observed positives and
\* TN + FP is the number of observed negatives.
C24_CountsAddUpToObservedClasses ==
    (Returned /\ Valid) =>
        /\ TP + FN = ObservedAs(1)
        /\ TN + FP = ObservedAs(0)
        /\ TP + FN = np_sum(observed_positives(observed))
        /\ TN + FP = np_sum(observed_negatives(observed))

C24_Witness ==
    /\ Returned /\ Valid
    /\ TP = 2 /\ FN = 1 /\ TN = 1 /\ FP = 1
    /\ ObservedAs(1) = 3 /\ ObservedAs(0) = 2

\* C25: for valid inputs the four masks partition the index set: every
\* index is in exactly one of them, so TP + FP + TN + FN = N.
C25_MasksPartitionTheIndexSet ==
    (Returned /\ Valid) =>
        LET masks == << true_positives(predicted_positives(predicted),
                                       observed_positives(observed)),
                        false_positives(predicted_positives(predicted),
                                        observed_positives(observed)),
                        true_negatives(predicted_negatives(predicted),
                                       observed_negatives(observed)),
                        false_negatives(predicted_negatives(predicted),
                                        observed_negatives(observed)) >>
        IN  /\ \A k \in 1..4 : Len(masks[k]) = Len(observed)
            /\ \A i \in 1..Len(observed) :
                   Cardinality({ k \in 1..4 : masks[k][i] }) = 1
            /\ TP + FP + TN + FN = Len(observed)

C25_Witness ==
    /\ Returned /\ Valid
    /\ Len(observed) = 5
    /\ TP = 1 /\ FP = 2 /\ TN = 1 /\ FN = 1


\* ------------------------------------------------------------------------
\* f1 against the conventional counts
\* ------------------------------------------------------------------------

\* C26 (as stated): for valid inputs with TP >= 1 the returned f1 equals
\* 2*TP / (2*TP + FP + FN), the float64 of that quotient of the
\* conventional counts.
C26_F1IsQuotientOfCounts ==
    (Returned /\ Valid /\ Cases(1, 1) >= 1) =>
        results.f1 = IntTrueDivide(2 * Cases(1, 1),
                                   2 * Cases(1, 1) + Cases(0, 1) + Cases(1, 0))

\* C26 (as amended): for valid inputs with TP >= 1 the returned f1 is
\* 2*TP / (2*TP + FP + FN) up to the rounding of the float64 operations
\* that compute it from precision and recall: within a factor 1 +- 2^-51 of
\* the float64 quotient, and equal to it when no case is misclassified.
C26_F1IsQuotientUpToRounding ==
    (Returned /\ Valid /\ Cases(1, 1) >= 1) =>
        /\ NearRatio(results.f1, 2 * Cases(1, 1),
                     2 * Cases(1, 1) + Cases(0, 1) + Cases(1, 0))
        /\ TP = Cases(1, 1) /\ FP = Cases(0, 1) /\ FN = Cases(1, 0)
        /\ (FP + FN = 0 => results.f1 = One)

\* 1 true positive, 4 false positives and no false negative: f1 is not the
\* float64 of 2/6 but is within rounding of it
C26_Witness ==
    /\ Returned /\ Valid
    /\ Cases(1, 1) = 1 /\ Cases(0, 1) = 4 /\ Cases(1, 0) = 0
    /\ results.f1 # IntTrueDivide(2, 6)
    /\ NearRatio(results.f1, 2, 6)


\* ------------------------------------------------------------------------
\* Label-swap symmetry
\* ------------------------------------------------------------------------

\* every label b replaced by 1 - b
Swapped(labels) == [i \in 1..Len(labels) |-> 1 - labels[i]]

BothClassesObserved == ObservedAs(0) >= 1 /\ ObservedAs(1) >= 1

\* C27: for valid inputs with both classes observed, the call on the two
\* lists with every label b replaced by 1 - b returns the same accuracy,
\* sensitivity and specificity exchanged, observed_positive_rate and
\* observed_negative_rate exchanged, and predicted_positive_rate and
\* predicted_negative_rate exchanged.
C27_LabelSwapSymmetry ==
    (Returned /\ Valid /\ BothClassesObserved) =>
        LET swapped == calculate_accuracy(Swapped(observed),
                                          Swapped(predicted))
        IN  /\ ~Raises(Swapped(observed), Swapped(predicted))
            /\ swapped.accuracy = results.accuracy
            /\ swapped.sensitivity = results.specificity
            /\ swapped.specificity = results.sensitivity
            /\ swapped.observed_positive_rate = results.observed_negative_rate
            /\ swapped.observed_negative_rate = results.observed_positive_rate
            /\ swapped.predicted_positive_rate
                   = results.predicted_negative_rate
            /\ swapped.predicted_negative_rate
                   = results.predicted_positive_rate

\* a call whose sensitivity, specificity and rates all change places under
\* the swap: 1 of 2 positives and all 3 negatives predicted correctly
C27_Witness ==
    /\ Returned /\ Valid /\ BothClassesObserved
    /\ TP = 1 /\ FN = 1 /\ TN = 3 /\ FP = 0
    /\ results.sensitivity # results.specificity
    /\ results.observed_positive_rate # results.observed_negative_rate
    /\ results.predicted_positive_rate # results.predicted_negative_rate
    /\ calculate_accuracy(Swapped(observed), Swapped(predicted)).sensitivity
           = results.specificity

=============================================================================
